---- MODULE Spec2Model ----
(***************************************************************************)
(* The UserFeed component of EMCDScroll (UserFeed.tsx) and its mounting    *)
(* (main.tsx), as a state machine.                                         *)
(*                                                                         *)
(* State: the two useState cells (users, loading), the two refs            *)
(* (observer, lastUserElementRef), the IntersectionObserver objects the    *)
(* component created, the committed DOM (view), the fetchUsers calls and   *)
(* the position of each in its async body, and whether the observer        *)
(* effect of the last commit has run yet.                                  *)
(*                                                                         *)
(* A step is one task of the browser's event loop: the mount, the          *)
(* settling of one await of one fetchUsers call, one delivery of an        *)
(* IntersectionObserver callback, one flush of the passive effects.        *)
(* State updates made in a task are rendered and committed in the same     *)
(* step (React batches them); the passive effect of that commit runs in a  *)
(* later step, or at the start of the next render, whichever comes first.  *)
(***************************************************************************)
EXTENDS Integers, Sequences, FiniteSets

VARIABLES
    root,                \* "created" | "mounted" | "unmounted"
    strictDev,           \* StrictMode re-runs mount effects (development build)
    apiHealthy,          \* from now on every request succeeds with a full batch
    users,               \* useState<User[]>
    loading,             \* useState<boolean>
    observer,            \* observer.current: index into observers, 0 = null
    lastUserElementRef,  \* lastUserElementRef.current: DOM node, 0 = null
    observers,           \* the IntersectionObserver objects created so far
    view,                \* the committed DOM of the feed
    effectPending,       \* the observer effect of the last commit has not run
    calls,               \* the fetchUsers invocations, in start order
    delivered,           \* observer callbacks delivered with an intersecting first entry
    resolved             \* the calls whose results array arrived, in arrival order

vars == <<root, strictDev, apiHealthy, users, loading, observer, lastUserElementRef,
          observers, view, effectPending, calls, delivered, resolved>>

----------------------------------------------------------------------------
(* Bounds and constants *)

\* How many fetchUsers invocations a behaviour may start.
MaxCalls == 3

\* How many entries one observer callback may carry.
MaxEntries == 3

\* '?results=10': the number of records a well-formed response carries.
BatchSize == 10

\* The results array is the server's: the requested batch, or none left.
ResultSizes == {0, BatchSize}

\* calls[c].n while no results array has been received.
NoResults == -1

----------------------------------------------------------------------------
(* Pure helpers *)

\* The k-th record of the response to call c; login.uuid identifies it.
User(c, k) == [uuid |-> <<c, k>>]

\* data.results of a well-formed response to call c carrying n records.
Results(c, n) == [k \in 1..n |-> User(c, k)]

IsPrefix(s, t) == Len(s) <= Len(t) /\ SubSeq(t, 1, Len(s)) = s

\* index === users.length - 1 (0-based index, as in the source).
RefOnLast(index, length) == index = length - 1

\* The mutation of the render that drops the card of the last record.
RenderDropLast(us, ld) ==
    [cards |-> [i \in 1..(IF Len(us) = 0 THEN 0 ELSE Len(us) - 1) |->
                    [key |-> us[i].uuid, user |-> us[i], ref |-> FALSE]],
     indicator |-> ld]

\* The JSX returned by UserFeed: one UserCard per record, in order, the ref
\* on the last one, and the "Loading..." paragraph when loading.
Render(us, ld) ==
    [cards |-> [i \in 1..Len(us) |->
                    [key |-> us[i].uuid, user |-> us[i],
                     ref |-> RefOnLast(i - 1, Len(us))]],
     indicator |-> ld]

\* The DOM of an unmounted root.
EmptyView == [cards |-> <<>>, indicator |-> FALSE]

\* The node the ref object holds after a commit of v: the card that was
\* given the ref (cards keep their node, so a node is named by its place).
RefNode(v) ==
    IF \E i \in 1..Len(v.cards) : v.cards[i].ref
    THEN CHOOSE i \in 1..Len(v.cards) : v.cards[i].ref
    ELSE 0

----------------------------------------------------------------------------
(* The IntersectionObserver objects *)

\* new IntersectionObserver(handleObserver): nothing observed, nothing reported.
NewObserver == [targets |-> {}, prev |-> "none"]

\* The mutation of disconnect() that leaves the targets observed.
disconnectNothing(obs, o) == obs

\* observer.current.disconnect(), guarded by the null test of lines 90 and 95.
disconnect(obs, o) ==
    IF o = 0 THEN obs ELSE [obs EXCEPT ![o] = NewObserver]

\* The mutation of observe() that observes nothing.
observeNothing(obs, o, node) == obs

\* The mutation of observe() without the null test of line 93.
observeUnguarded(obs, o, node) == [obs EXCEPT ![o].targets = @ \cup {node}]

\* observer.current.observe(node), guarded by the null test of line 93.
observe(obs, o, node) ==
    IF node = 0 THEN obs ELSE [obs EXCEPT ![o].targets = @ \cup {node}]

\* The body of the observer effect, lines 90-93.
effectBody(obs, cur, node) ==
    LET d == disconnect(obs, cur)
        o == Len(d) + 1
    IN  [observers |-> observe(Append(d, NewObserver), o, node), observer |-> o]

\* The mutation of the observer effect that returns no cleanup.
cleanupNothing(obs, cur) == [observers |-> obs, observer |-> cur]

\* The cleanup the observer effect returned, line 95.
effectCleanup(obs, cur) == [observers |-> disconnect(obs, cur), observer |-> cur]

\* A re-run of the observer effect after users changed: cleanup, then body.
effectRerun(obs, cur, node) ==
    LET c == effectCleanup(obs, cur)
    IN  effectBody(c.observers, c.observer, node)

\* The entry lists the browser can hand to a callback of an observer that
\* last reported prev for its one target: the target's successive changes,
\* so they alternate, and the first differs from what was last reported.
Alternates(e) == \A i \in 1..(Len(e) - 1) : e[i].isIntersecting # e[i + 1].isIntersecting

EntryLists(prev) ==
    {e \in UNION {[1..n -> [isIntersecting : BOOLEAN]] : n \in 1..MaxEntries} :
        /\ Alternates(e)
        /\ prev = "in" => ~e[1].isIntersecting
        /\ prev = "out" => e[1].isIntersecting}

\* The mutation of handleObserver that loads on every callback.
handleObserverAlways(entries) == TRUE

\* The mutation of handleObserver that does not load while loading is set.
handleObserverGuarded(entries) == entries[1].isIntersecting /\ ~loading

\* The mutation of handleObserver that reads the last entry, not the first.
handleObserverLast(entries) == entries[Len(entries)].isIntersecting

\* handleObserver: whether the callback invokes fetchUsers (lines 79-83).
handleObserver(entries) == entries[1].isIntersecting

----------------------------------------------------------------------------
(* fetchUsers *)

\* A fetchUsers invocation: who started it, where it is, and the size of the
\* results array it received.  pc: "fetch" awaits line 66, "json" awaits
\* line 67, "done" returned, "rejected" threw out of an await.
NewCall(by) == [by |-> by, pc |-> "fetch", n |-> NoResults]

InFlight == {c \in 1..Len(calls) : calls[c].pc \in {"fetch", "json"}}

\* The mutation of the updater that appends to the users of a stale closure.
setUsersStale(prevUsers, results) == results

\* The mutation of the updater that puts the new batch first.
setUsersPrepend(prevUsers, results) == results \o prevUsers

\* The mutation of the updater that keeps the batches in the order their
\* calls were started.
setUsersByStart(prevUsers, results) ==
    IF results = <<>>
    THEN prevUsers
    ELSE SelectSeq(prevUsers, LAMBDA u : u.uuid[1] < results[1].uuid[1])
             \o results
             \o SelectSeq(prevUsers, LAMBDA u : u.uuid[1] > results[1].uuid[1])

\* The updater of line 69: [...prevUsers, ...data.results].
setUsersUpdater(prevUsers, results) == prevUsers \o results

\* The mutation of the start of fetchUsers that leaves the flag alone.
loadingKept(ld) == ld

\* setLoading(true), line 65.
loadingAtStart(ld) == TRUE

\* The mutation of a rejection that clears the flag (a finally block).
loadingCleared(ld) == FALSE

\* A rejected await leaves fetchUsers before line 70: the flag is as it was.
loadingAfterReject(ld) == ld

\* Observers as the pending observer effect leaves them: React flushes the
\* passive effects of the last commit before it renders again.
Flushed(obs) ==
    IF effectPending = "update"
    THEN effectRerun(obs, observer, lastUserElementRef)
    ELSE [observers |-> obs, observer |-> observer]

\* The render and commit that follow the state updates of one task.  obs:
\* the observers as the task left them; usersSet: setUsers was called (the
\* updater returns a new array, so the observer effect is scheduled).
\* setLoading with the current value is no update.  An unmounted component
\* ignores its setters.
Commit(obs, newUsers, newLoading, usersSet) ==
    IF root = "mounted" /\ (usersSet \/ newLoading # loading)
    THEN LET f == Flushed(obs)
             v == Render(newUsers, newLoading)
         IN  /\ users' = newUsers
             /\ loading' = newLoading
             /\ view' = v
             /\ lastUserElementRef' = RefNode(v)
             /\ observers' = f.observers
             /\ observer' = f.observer
             /\ effectPending' = IF usersSet THEN "update" ELSE "none"
    ELSE /\ observers' = obs
         /\ UNCHANGED <<users, loading, view, lastUserElementRef, observer, effectPending>>

----------------------------------------------------------------------------
(* Initial state and steps *)

Init ==
    /\ root = "created"
    /\ strictDev \in BOOLEAN
    /\ apiHealthy = FALSE
    /\ users = <<>>
    /\ loading = FALSE
    /\ observer = 0
    /\ lastUserElementRef = 0
    /\ observers = <<>>
    /\ view = EmptyView
    /\ effectPending = "none"
    /\ calls = <<>>
    /\ delivered = 0
    /\ resolved = <<>>

\* createRoot(...).render(<StrictMode><UserFeed /></StrictMode>): the first
\* render and commit; the mount effects are scheduled.
Mount ==
    /\ root = "created"
    /\ root' = "mounted"
    /\ view' = Render(users, loading)
    /\ lastUserElementRef' = RefNode(Render(users, loading))
    /\ effectPending' = "mount"
    /\ UNCHANGED <<strictDev, apiHealthy, users, loading, observer, observers, calls, delivered, resolved>>

\* How many times the mount effects run: StrictMode runs them, their
\* cleanups, and them again in a development build.
MountRuns == IF strictDev THEN 2 ELSE 1

\* The passive effects of the mount: the observer effect and the initial
\* load, then under StrictMode the observer cleanup and both effects again.
MountEffects ==
    /\ root = "mounted"
    /\ effectPending = "mount"
    /\ LET first == effectBody(observers, observer, lastUserElementRef)
           again == effectRerun(first.observers, first.observer, lastUserElementRef)
           final == IF MountRuns = 2 THEN again ELSE first
           ld    == loadingAtStart(loading)
       IN  /\ observers' = final.observers
           /\ observer' = final.observer
           /\ calls' = [i \in 1..MountRuns |-> NewCall("mount")]
           /\ loading' = ld
           /\ view' = Render(users, ld)
    /\ effectPending' = "none"
    /\ UNCHANGED <<root, strictDev, apiHealthy, users, lastUserElementRef, delivered, resolved>>

\* The passive effects of a commit that changed users: the observer effect.
UpdateEffects ==
    /\ root = "mounted"
    /\ effectPending = "update"
    /\ observers' = Flushed(observers).observers
    /\ observer' = Flushed(observers).observer
    /\ effectPending' = "none"
    /\ UNCHANGED <<root, strictDev, apiHealthy, users, loading, lastUserElementRef, view,
                   calls, delivered, resolved>>

\* The browser delivers entries to the callback of observer o.
ObserverCallback(o, entries) ==
    /\ o \in 1..Len(observers)
    /\ observers[o].targets # {}
    /\ entries \in EntryLists(observers[o].prev)
    /\ LET seen == [observers EXCEPT ![o].prev =
                       IF entries[Len(entries)].isIntersecting THEN "in" ELSE "out"]
       IN  IF handleObserver(entries)
           THEN /\ Len(calls) < MaxCalls
                /\ calls' = Append(calls, NewCall("observer"))
                /\ Commit(seen, users, loadingAtStart(loading), FALSE)
           ELSE /\ calls' = calls
                /\ Commit(seen, users, loading, FALSE)
    /\ delivered' = IF entries[1].isIntersecting THEN delivered + 1 ELSE delivered
    /\ UNCHANGED <<root, strictDev, apiHealthy, resolved>>

\* fetch() of call c resolves with a response (of any status).
FetchResponse(c) ==
    /\ c \in 1..Len(calls)
    /\ calls[c].pc = "fetch"
    /\ calls' = [calls EXCEPT ![c].pc = "json"]
    /\ UNCHANGED <<root, strictDev, apiHealthy, users, loading, observer, lastUserElementRef,
                   observers, view, effectPending, delivered, resolved>>

\* fetch() of call c rejects: a network error.
FetchReject(c) ==
    /\ c \in 1..Len(calls)
    /\ calls[c].pc = "fetch"
    /\ ~apiHealthy
    /\ calls' = [calls EXCEPT ![c].pc = "rejected"]
    /\ Commit(observers, users, loadingAfterReject(loading), FALSE)
    /\ UNCHANGED <<root, strictDev, apiHealthy, delivered, resolved>>

\* response.json() of call c rejects: the body is not JSON.
JsonReject(c) ==
    /\ c \in 1..Len(calls)
    /\ calls[c].pc = "json"
    /\ ~apiHealthy
    /\ calls' = [calls EXCEPT ![c].pc = "rejected"]
    /\ Commit(observers, users, loadingAfterReject(loading), FALSE)
    /\ UNCHANGED <<root, strictDev, apiHealthy, delivered, resolved>>

\* response.json() of call c resolves with a results array of n records:
\* lines 69-70.
JsonResolve(c, n) ==
    /\ c \in 1..Len(calls)
    /\ calls[c].pc = "json"
    /\ n \in ResultSizes
    /\ apiHealthy => n = BatchSize
    /\ calls' = [calls EXCEPT ![c].pc = "done", ![c].n = n]
    /\ Commit(observers, setUsersUpdater(users, Results(c, n)), FALSE, TRUE)
    /\ resolved' = Append(resolved, c)
    /\ UNCHANGED <<root, strictDev, apiHealthy, delivered>>

\* response.json() of call c resolves with a value that has no iterable
\* results (an error object, null).  Lines 69-70 run and fetchUsers returns;
\* the updater throws when React renders, and with no error boundary the
\* root is unmounted: the pending effects are flushed, the cleanups run.
JsonNoResults(c) ==
    /\ c \in 1..Len(calls)
    /\ calls[c].pc = "json"
    /\ ~apiHealthy
    /\ calls' = [calls EXCEPT ![c].pc = "done"]
    /\ IF root = "mounted"
       THEN LET f == Flushed(observers)
            IN  /\ root' = "unmounted"
                /\ observers' = effectCleanup(f.observers, f.observer).observers
                /\ observer' = f.observer
                /\ lastUserElementRef' = 0
                /\ view' = EmptyView
                /\ effectPending' = "none"
                /\ UNCHANGED <<users, loading>>
       ELSE UNCHANGED <<root, users, loading, observer, lastUserElementRef,
                        observers, view, effectPending>>
    /\ UNCHANGED <<strictDev, apiHealthy, delivered, resolved>>

\* The environment of the feed: from this step on the network does not
\* fail and the endpoint answers every request with BatchSize records.
\* Until then every outcome of a request is possible, success included.
ApiSettles ==
    /\ ~apiHealthy
    /\ apiHealthy' = TRUE
    /\ UNCHANGED <<root, strictDev, users, loading, observer, lastUserElementRef,
                   observers, view, effectPending, calls, delivered, resolved>>

Next ==
    \/ ApiSettles
    \/ Mount
    \/ MountEffects
    \/ UpdateEffects
    \/ \E o \in 1..Len(observers) : \E entries \in EntryLists(observers[o].prev) :
           ObserverCallback(o, entries)
    \/ \E c \in 1..Len(calls) : FetchResponse(c)
    \/ \E c \in 1..Len(calls) : FetchReject(c)
    \/ \E c \in 1..Len(calls) : JsonReject(c)
    \/ \E c \in 1..Len(calls) : \E n \in ResultSizes : JsonResolve(c, n)
    \/ \E c \in 1..Len(calls) : JsonNoResults(c)

Spec == Init /\ [][Next]_vars

\* A callback the handler sees as the card entering the viewport.
Enters ==
    \E o \in 1..Len(observers) : \E entries \in EntryLists(observers[o].prev) :
        entries[1].isIntersecting /\ ObserverCallback(o, entries)

\* A callback that reports the card having left the viewport.
Leaves ==
    \E o \in 1..Len(observers) : \E entries \in EntryLists(observers[o].prev) :
        /\ ~entries[1].isIntersecting
        /\ ~entries[Len(entries)].isIntersecting
        /\ ObserverCallback(o, entries)

\* The scheduling the liveness properties assume: React runs the passive
\* effects it scheduled, every request is answered and every body read,
\* and the observed card keeps leaving and entering the viewport.
Fairness ==
    /\ WF_vars(MountEffects)
    /\ WF_vars(UpdateEffects)
    /\ WF_vars(\E c \in 1..Len(calls) : FetchResponse(c))
    /\ WF_vars(\E c \in 1..Len(calls) : \E n \in ResultSizes : JsonResolve(c, n))
    /\ WF_vars(Enters)
    /\ WF_vars(Leaves)

LiveSpec == Spec /\ Fairness

----------------------------------------------------------------------------
(* Properties *)

\* The invocations that returned after appending a results array.
Succeeded == {c \in 1..Len(calls) : calls[c].pc = "done" /\ calls[c].n # NoResults}

ByMount == {c \in 1..Len(calls) : calls[c].by = "mount"}

ByObserver == {c \in 1..Len(calls) : calls[c].by = "observer"}

Connected == {o \in 1..Len(observers) : observers[o].targets # {}}

\* Call c leaves an await by a rejection in this step.
Rejects(c) == calls[c].pc \in {"fetch", "json"} /\ calls'[c].pc = "rejected"

\* Call c receives its results array in this step.
Succeeds(c) == calls[c].pc = "json" /\ calls'[c].pc = "done" /\ calls'[c].n # NoResults

\* C1: while the feed is mounted, if each of the N invocations that have
\* completed successfully returned BatchSize records, users holds
\* N * BatchSize records, however the invocations overlapped.
C1_LengthIsBatches ==
    (root = "mounted" /\ \A c \in Succeeded : calls[c].n = BatchSize)
        => Len(users) = Cardinality(Succeeded) * BatchSize

\* Two overlapping invocations have both completed, the later-started first.
C1_Witness ==
    /\ root = "mounted"
    /\ Cardinality(Succeeded) = 2
    /\ Len(users) = 2 * BatchSize
    /\ users[1].uuid[1] > users[BatchSize + 1].uuid[1]

\* C2: while the feed is mounted, loading is true only if some fetchUsers
\* call is in flight.
C2_LoadingOnlyInFlight ==
    (root = "mounted" /\ loading) => InFlight # {}

\* C3: the invocations started by the visibility trigger never outnumber
\* the observer callbacks delivered with an intersecting first entry.
C3_OneLoadPerCallback == Cardinality(ByObserver) <= delivered

\* Two callbacks have each started an invocation.
C3_Witness == delivered = 2 /\ Cardinality(ByObserver) = 2

\* C4: a step in which a fetchUsers call rejects leaves users and loading
\* as they were, and a mounted feed whose flag is set with nothing in flight
\* keeps the flag set.
C4_FailureKeepsState ==
    [][/\ (\E c \in 1..Len(calls) : Rejects(c)) => (users' = users /\ loading' = loading)
       /\ (root = "mounted" /\ loading /\ InFlight = {}) => loading']_vars

\* A call was rejected, nothing is in flight, and the flag is still set
\* over the records loaded before.
C4_Witness ==
    /\ root = "mounted"
    /\ loading
    /\ InFlight = {}
    /\ \E c \in 1..Len(calls) : calls[c].pc = "rejected"
    /\ Len(users) = BatchSize

\* C5: every step leaves the old users as a prefix of the new users.
C5_AppendOnly == [][IsPrefix(users, users')]_vars

\* A second batch was appended after a first.
C5_Witness == root = "mounted" /\ Len(users) = 2 * BatchSize /\ users[1].uuid[1] = 1

\* C6: once the observer effect of the last commit has run, a feed with
\* cards has exactly one connected observer, observer.current, and it
\* watches exactly the last card; a feed without cards has none.
C6_OneObserverOnLastCard ==
    (root = "mounted" /\ effectPending = "none") =>
        IF users = <<>>
        THEN Connected = {}
        ELSE /\ Connected = {observer}
             /\ observers[observer].targets = {Len(view.cards)}
             /\ Len(view.cards) = Len(users)

\* The observer was re-attached after a second change of users.
C6_Witness ==
    /\ root = "mounted"
    /\ effectPending = "none"
    /\ Len(users) = 2 * BatchSize
    /\ observers[observer].targets = {2 * BatchSize}

\* C7: on a mounted feed a started invocation sets the flag, a successful
\* completion appends its results and clears the flag, and the flag goes
\* from set to clear in no other step.
C7_FlagProtocol ==
    [][/\ (root = "mounted" /\ Len(calls') > Len(calls)) => loading'
       /\ \A c \in 1..Len(calls) :
              (root = "mounted" /\ Succeeds(c)) =>
                  /\ users' = users \o Results(c, calls'[c].n)
                  /\ ~loading'
       /\ (loading /\ ~loading') =>
              \E c \in 1..Len(calls) :
                  /\ Succeeds(c)
                  /\ users' = users \o Results(c, calls'[c].n)]_vars

\* An invocation started by the trigger completed and cleared the flag.
C7_Witness ==
    /\ root = "mounted"
    /\ ~loading
    /\ \E c \in Succeeded : calls[c].by = "observer" /\ calls[c].n = BatchSize
    /\ InFlight = {}

\* C8: while the feed is mounted and a fetchUsers call is in flight,
\* loading is true.
C8_LoadingWhileInFlight ==
    (root = "mounted" /\ InFlight # {}) => loading

\* C9: the mounted feed shows one card per record, the i-th card showing
\* the i-th record, and the loading indicator exactly when loading is true.
C9_ViewMatchesState ==
    root = "mounted" =>
        /\ Len(view.cards) = Len(users)
        /\ \A i \in 1..Len(users) : view.cards[i].user = users[i]
        /\ view.indicator = loading

\* Cards and the indicator are shown together.
C9_Witness == root = "mounted" /\ Len(users) = BatchSize /\ loading /\ view.indicator

\* C10: the mount commits an empty feed with the flag clear, and its
\* effects invoke fetchUsers exactly once, before any intersection event.
C10_MountLoadsOnce ==
    /\ effectPending = "mount" => (users = <<>> /\ ~loading /\ calls = <<>>)
    /\ (root # "created" /\ effectPending # "mount") =>
           (Cardinality(ByMount) = 1 /\ calls[1].by = "mount")

\* C11: every observer callback delivered with an intersecting first entry
\* starts a new fetchUsers call, whatever the flag and whatever is already
\* in flight: the new call joins the calls in flight.
C11_NoConcurrencyGuard ==
    [][delivered' = delivered + 1 =>
          /\ Len(calls') = Len(calls) + 1
          /\ calls'[Len(calls')] = NewCall("observer")
          /\ InFlight' = InFlight \cup {Len(calls')}]_vars

\* In a production build two calls started by the trigger are in flight at
\* once: the second was started while the first had the flag set.
C11_Witness ==
    /\ ~strictDev
    /\ root = "mounted"
    /\ loading
    /\ Cardinality(InFlight \cap ByObserver) >= 2

\* The results arrays of the calls of order, whole and one after another.
RECURSIVE Batches(_)
Batches(order) ==
    IF order = <<>>
    THEN <<>>
    ELSE Batches(SubSeq(order, 1, Len(order) - 1))
             \o Results(order[Len(order)], calls[order[Len(order)]].n)

\* C12: while the feed is mounted, users is the results arrays of the
\* completed calls, each whole and in response order, one after another in
\* the order in which the responses arrived.
C12_BatchesInArrivalOrder ==
    root = "mounted" => users = Batches(resolved)

\* Two overlapping calls resolved in the reverse of their start order, and
\* the batch of the later-started call comes first.
C12_Witness ==
    /\ root = "mounted"
    /\ Len(resolved) = 2
    /\ resolved[1] > resolved[2]
    /\ Len(users) = 2 * BatchSize
    /\ users[1].uuid[1] = resolved[1]
    /\ users[2 * BatchSize].uuid = <<resolved[2], BatchSize>>

\* The lengths users can have below the cap on invocations.
Lengths == {j * BatchSize : j \in 1..MaxCalls}

\* C13: under Fairness, from every state of a mounted feed with cards in
\* which the API answers every request with a full batch, and a call is in
\* flight or one more may be started, users eventually gets longer.
C13_FeedKeepsGrowing ==
    \A k \in Lengths :
        (/\ apiHealthy
         /\ root = "mounted"
         /\ Len(users) = k
         /\ (InFlight # {} \/ Len(calls) < MaxCalls))
            ~> (Len(users) > k)

\* The feed grew by a batch that the trigger loaded after the API settled.
C13_Witness ==
    /\ apiHealthy
    /\ root = "mounted"
    /\ Len(users) >= 2 * BatchSize
    /\ \E c \in ByObserver \cap Succeeded : calls[c].n = BatchSize

\* C14: as long as users is empty there is no card, no node is observed, no
\* callback has been delivered and the only invocations are the mount's;
\* and once those have all ended with users still empty, no step starts an
\* invocation or adds a record.
C14_EmptyFeedIsStuck ==
    [][/\ users' = <<>> =>
              /\ view'.cards = <<>>
              /\ lastUserElementRef' = 0
              /\ Connected' = {}
              /\ delivered' = 0
              /\ ByObserver' = {}
              /\ Len(calls') <= MountRuns
       /\ (users = <<>> /\ calls # <<>> /\ InFlight = {}) =>
              (users' = <<>> /\ calls' = calls)]_vars

\* The mount's calls all ended, one of them with an empty results array;
\* the observer effect ran again and found no card to observe.
C14_Witness ==
    /\ root = "mounted"
    /\ users = <<>>
    /\ InFlight = {}
    /\ resolved # <<>>
    /\ effectPending = "none"
    /\ Len(observers) >= 2

\* Observer o delivers a callback in this step whose first entry is not
\* intersecting: what it last reported changes, its target stays observed,
\* and no intersecting delivery is counted.
ReportsOnly(o) ==
    /\ o <= Len(observers')
    /\ observers[o].targets # {}
    /\ observers'[o].targets = observers[o].targets
    /\ observers'[o].prev # observers[o].prev
    /\ delivered' = delivered

\* C15: a step starts fetchUsers invocations only if it is the run of the
\* mount effects (which starts the mount's) or the delivery of a callback
\* with an intersecting first entry (which starts one); a callback whose
\* first entry is not intersecting leaves calls, users and loading as they
\* were.
C15_WhoStartsFetchUsers ==
    [][/\ Len(calls') > Len(calls) =>
              \/ /\ effectPending = "mount"
                 /\ calls = <<>>
                 /\ delivered' = delivered
                 /\ \A c \in 1..Len(calls') : calls'[c].by = "mount"
              \/ /\ delivered' = delivered + 1
                 /\ calls' = Append(calls, NewCall("observer"))
       /\ \A o \in 1..Len(observers) :
              ReportsOnly(o) =>
                  (calls' = calls /\ users' = users /\ loading' = loading)]_vars

\* The card of a loaded batch was reported out of view by a callback, and
\* no invocation but the mount's exists.
C15_Witness ==
    /\ root = "mounted"
    /\ delivered = 0
    /\ Len(users) = BatchSize
    /\ observers[observer].targets # {}
    /\ observers[observer].prev = "out"
    /\ ByObserver = {}
    /\ InFlight = {}

\* Call c moves on in its body, or stays where it is, in this step.
NotCancelled(c) ==
    \/ calls'[c] = calls[c]
    \/ calls[c].pc = "fetch" /\ calls'[c].pc \in {"json", "rejected"}
    \/ calls[c].pc = "json" /\ calls'[c].pc \in {"done", "rejected"}

\* Call c has returned or thrown.
Settled(c) == c <= Len(calls) /\ calls[c].pc \in {"done", "rejected"}

\* C16: the unmount leaves no observer connected; after it the feed stays
\* unmounted, no observer is connected, no invocation is started and no call
\* is cancelled; and under Fairness every call in flight on the unmounted
\* feed settles.
C16_AfterUnmount ==
    /\ [][/\ root' = "unmounted" => Connected' = {}
          /\ root = "unmounted" =>
                 /\ root' = "unmounted"
                 /\ Len(calls') = Len(calls)
                 /\ \A c \in 1..Len(calls) : NotCancelled(c)]_vars
    /\ \A c \in 1..MaxCalls :
           (root = "unmounted" /\ c \in InFlight) ~> Settled(c)

\* A call that was in flight at the unmount received its full batch
\* afterwards: the batch arrived, and users does not hold it.
C16_Witness ==
    /\ root = "unmounted"
    /\ Connected = {}
    /\ \E c \in Succeeded : calls[c].n = BatchSize
    /\ Len(Batches(resolved)) > Len(users)

====
